---- MODULE Spec2Model ----
(***************************************************************************)
(* Command-execution gateway of linux-mcp-server: run_command of the       *)
(* whitelisted server (linux_mcp_server_whitelist.py) and of the           *)
(* unrestricted server (linux_mcp_server_unrestricted.py).                 *)
(*                                                                         *)
(* Text is modelled as a sequence of one-character strings, so that        *)
(* tokenizing, base-name extraction, the argument rules, str.rstrip and    *)
(* str.strip and the result formatting are computed character by           *)
(* character as the Python code computes them.                             *)
(***************************************************************************)
EXTENDS Integers, Sequences, FiniteSets, TLC

\* ------------------------------------------------------------------ bounds
\* longest text a child writes to one of its streams
MaxOut == 2
\* explicit timeouts of a request range over 1..MaxTimeout (plus the default)
MaxTimeout == 2
\* exit codes of a child range over 0..MaxCode (plus -9, death by signal)
MaxCode == 1

\* --------------------------------------------------------- program constants
MAX_ARGS == 30
DEFAULT_TIMEOUT == 10
UNRESTRICTED_DEFAULT_TIMEOUT == 15
MAX_ARG_LEN == 1024

\* the grave accent character (a TLA+ string cannot hold it)
BACKTICK == "<grave>"

\* ------------------------------------------------------------ program texts
ALLOWED_COMMANDS ==
    { <<"l", "s">>,
      <<"c", "a", "t">>,
      <<"h", "e", "a", "d">>,
      <<"t", "a", "i", "l">>,
      <<"l", "e", "s", "s">>,
      <<"g", "r", "e", "p">>,
      <<"e", "g", "r", "e", "p">>,
      <<"f", "g", "r", "e", "p">>,
      <<"w", "c">>,
      <<"d", "f">>,
      <<"d", "u">>,
      <<"p", "s">>,
      <<"t", "o", "p">>,
      <<"u", "n", "a", "m", "e">>,
      <<"w", "h", "o", "a", "m", "i">>,
      <<"i", "d">>,
      <<"u", "p", "t", "i", "m", "e">>,
      <<"f", "r", "e", "e">>,
      <<"i", "p">>,
      <<"i", "f", "c", "o", "n", "f", "i", "g">>,
      <<"s", "s">>,
      <<"n", "e", "t", "s", "t", "a", "t">>,
      <<"j", "o", "u", "r", "n", "a", "l", "c", "t", "l">>,
      <<"s", "y", "s", "t", "e", "m", "c", "t", "l">>,
      <<"m", "o", "u", "n", "t">>,
      <<"u", "m", "o", "u", "n", "t">>,
      <<"s", "t", "a", "t">>,
      <<"f", "i", "n", "d">>,
      <<"s", "e", "d">>,
      <<"a", "w", "k">>,
      <<"c", "u", "t">>,
      <<"s", "o", "r", "t">>,
      <<"u", "n", "i", "q">>,
      <<"t", "r">>,
      <<"e", "n", "v">>,
      <<"d", "a", "t", "e">>,
      <<"h", "o", "s", "t", "n", "a", "m", "e">>,
      <<"r", "e", "a", "d", "l", "i", "n", "k">>,
      <<"f", "i", "l", "e">>,
      <<"w", "h", "i", "c", "h">>,
      <<"b", "a", "s", "h">> }
MSG_NO_COMMAND == <<"E", "R", "R", "O", "R", ":", " ", "N", "o", " ", "c", "o", "m", "m", "a", "n", "d", " ", "p", "r", "o", "v", "i", "d", "e", "d", ".">>
MSG_NOT_ALLOWED_PRE == <<"E", "R", "R", "O", "R", ":", " ", "C", "o", "m", "m", "a", "n", "d", " ", "'">>
MSG_NOT_ALLOWED_POST == <<"'", " ", "i", "s", " ", "n", "o", "t", " ", "a", "l", "l", "o", "w", "e", "d", " ", "b", "y", " ", "s", "e", "r", "v", "e", "r", " ", "w", "h", "i", "t", "e", "l", "i", "s", "t", ".">>
MSG_NOT_FOUND_POST == <<"'", " ", "n", "o", "t", " ", "f", "o", "u", "n", "d", " ", "o", "n", " ", "s", "e", "r", "v", "e", "r", " ", "P", "A", "T", "H", ".">>
MSG_TOO_MANY_PRE == <<"E", "R", "R", "O", "R", ":", " ", "T", "o", "o", " ", "m", "a", "n", "y", " ", "a", "r", "g", "u", "m", "e", "n", "t", "s", " ", "(", "l", "i", "m", "i", "t", " ">>
MSG_TOO_MANY_POST == <<")", ".">>
MSG_UNSAFE_PRE == <<"E", "R", "R", "O", "R", ":", " ", "U", "n", "s", "a", "f", "e", " ", "a", "r", "g", "u", "m", "e", "n", "t", " ", "d", "e", "t", "e", "c", "t", "e", "d", ":", " ">>
MSG_TIMEOUT_PRE == <<"E", "R", "R", "O", "R", ":", " ", "C", "o", "m", "m", "a", "n", "d", " ", "t", "i", "m", "e", "d", " ", "o", "u", "t", " ", "a", "f", "t", "e", "r", " ">>
MSG_TIMEOUT_POST == <<" ", "s", "e", "c", "o", "n", "d", "s", ".">>
MSG_EXC_WHITELIST_PRE == <<"E", "R", "R", "O", "R", ":", " ", "E", "x", "c", "e", "p", "t", "i", "o", "n", " ", "w", "h", "i", "l", "e", " ", "r", "u", "n", "n", "i", "n", "g", " ", "c", "o", "m", "m", "a", "n", "d", ":", " ">>
MSG_EXC_UNRESTRICTED_PRE == <<"E", "R", "R", "O", "R", ":", " ">>
STDOUT_HDR == <<"S", "T", "D", "O", "U", "T", ":", "\n">>
STDERR_HDR == <<"S", "T", "D", "E", "R", "R", ":", "\n">>
RETURN_CODE_PRE == <<"R", "E", "T", "U", "R", "N", " ", "C", "O", "D", "E", ":", " ">>
BLANK_LINE == <<"\n", "\n">>
NO_CLOSING_QUOTATION == <<"N", "o", " ", "c", "l", "o", "s", "i", "n", "g", " ", "q", "u", "o", "t", "a", "t", "i", "o", "n">>
NO_ESCAPED_CHARACTER == <<"N", "o", " ", "e", "s", "c", "a", "p", "e", "d", " ", "c", "h", "a", "r", "a", "c", "t", "e", "r">>
PERMISSION_DENIED == <<"[", "E", "r", "r", "n", "o", " ", "1", "3", "]", " ", "P", "e", "r", "m", "i", "s", "s", "i", "o", "n", " ", "d", "e", "n", "i", "e", "d">>
BIN_DIR == <<"/", "u", "s", "r", "/", "b", "i", "n", "/">>
BIN_SH == <<"/", "b", "i", "n", "/", "s", "h">>
DASH_C == <<"-", "c">>
DASH_EXEC == <<"-", "e", "x", "e", "c">>
DASHDASH_EXEC == <<"-", "-", "e", "x", "e", "c">>
DOTDOT == <<".", ".">>
NAME_rm == <<"r", "m">>
NAME_id == <<"i", "d">>
NAME_cat == <<"c", "a", "t">>

\* ------------------------------------------------------------- text helpers
\* characters str.rstrip() / str.strip() remove, and shlex whitespace
PyWhitespace == {" ", "\t", "\n", "\r"}

WordChars ==
    { "a","b","c","d","e","f","g","h","i","j","k","l","m","n","o","p","q","r",
      "s","t","u","v","w","x","y","z",
      "A","B","C","D","E","F","G","H","I","J","K","L","M","N","O","P","Q","R",
      "S","T","U","V","W","X","Y","Z",
      "0","1","2","3","4","5","6","7","8","9","_" }

\* sub in s  (the Python substring test)
Contains(s, sub) ==
    \E k \in 0..(Len(s) - Len(sub)) : SubSeq(s, k + 1, k + Len(sub)) = sub

StartsWith(s, pre) ==
    Len(s) >= Len(pre) /\ SubSeq(s, 1, Len(pre)) = pre

EndsWith(s, suf) ==
    Len(s) >= Len(suf) /\ SubSeq(s, Len(s) - Len(suf) + 1, Len(s)) = suf

\* s.rstrip()
RECURSIVE rstrip(_)
rstrip(s) ==
    IF s # <<>> /\ s[Len(s)] \in PyWhitespace
    THEN rstrip(SubSeq(s, 1, Len(s) - 1))
    ELSE s

RECURSIVE lstrip(_)
lstrip(s) ==
    IF s # <<>> /\ s[1] \in PyWhitespace THEN lstrip(Tail(s)) ELSE s

\* s.strip()
strip(s) == lstrip(rstrip(s))

Digit(d) ==
    CASE d = 0 -> "0" [] d = 1 -> "1" [] d = 2 -> "2" [] d = 3 -> "3"
      [] d = 4 -> "4" [] d = 5 -> "5" [] d = 6 -> "6" [] d = 7 -> "7"
      [] d = 8 -> "8" [] d = 9 -> "9"

RECURSIVE NatStr(_)
NatStr(n) ==
    IF n < 10 THEN <<Digit(n)>> ELSE Append(NatStr(n \div 10), Digit(n % 10))

\* str(n) of an int, as the f-strings render timeout, MAX_ARGS and returncode
IntStr(n) == IF n < 0 THEN <<"-">> \o NatStr(0 - n) ELSE NatStr(n)

\* "\n\n".join(blocks)
RECURSIVE JoinBlank(_)
JoinBlank(blocks) ==
    IF blocks = <<>> THEN <<>>
    ELSE IF Len(blocks) = 1 THEN blocks[1]
    ELSE blocks[1] \o BLANK_LINE \o JoinBlank(Tail(blocks))

\* base.split("/")[-1]
RECURSIVE LastComponent(_)
LastComponent(base) ==
    IF \E k \in 1..Len(base) : base[k] = "/"
    THEN LastComponent(Tail(base))
    ELSE base

\* ----------------------------------------------------------------- tokenizer
\* shlex.split(s): posix mode, whitespace_split, no commenters.
\* The lexer state is " " (between tokens), "a" (in a word), a quote
\* character (inside that quote) or the escape character (after a backslash).
ShlexQuotes == {"'", "\""}
ShlexEscape == {"\\"}
ShlexEscapedQuotes == {"\""}
EOF == ""

\* the lexer before the first character
LexInit ==
    [state |-> " ", escapedstate |-> " ", token |-> <<>>, quoted |-> FALSE,
     out |-> <<>>, raised |-> FALSE, msg |-> <<>>]

\* a token ends: get_token hands it to the list, and the next read_token
\* starts with an empty token, quoted = False and escapedstate = " "
Emit(lx, state) ==
    [lx EXCEPT !.state = state, !.escapedstate = " ", !.token = <<>>,
               !.quoted = FALSE, !.out = Append(lx.out, lx.token)]

\* one turn of the while loop of read_token on the character nextchar
\* (EOF once the line is used up)
read_token_step(lx, nextchar) ==
    LET pending == lx.token # <<>> \/ lx.quoted IN
    IF lx.raised THEN lx
    ELSE IF lx.state = " " THEN
        IF nextchar = EOF THEN (IF pending THEN Emit(lx, " ") ELSE lx)
        ELSE IF nextchar \in PyWhitespace THEN
            (IF pending THEN Emit(lx, " ") ELSE lx)
        ELSE IF nextchar \in ShlexEscape THEN
            [lx EXCEPT !.escapedstate = "a", !.state = nextchar]
        ELSE IF nextchar \in ShlexQuotes THEN [lx EXCEPT !.state = nextchar]
        ELSE [lx EXCEPT !.token = <<nextchar>>, !.state = "a"]
    ELSE IF lx.state \in ShlexQuotes THEN
        IF nextchar = EOF THEN
            [lx EXCEPT !.raised = TRUE, !.msg = NO_CLOSING_QUOTATION]
        ELSE IF nextchar = lx.state THEN
            [lx EXCEPT !.quoted = TRUE, !.state = "a"]
        ELSE IF nextchar \in ShlexEscape /\ lx.state \in ShlexEscapedQuotes THEN
            [lx EXCEPT !.quoted = TRUE, !.escapedstate = lx.state, !.state = nextchar]
        ELSE [lx EXCEPT !.quoted = TRUE, !.token = Append(lx.token, nextchar)]
    ELSE IF lx.state \in ShlexEscape THEN
        IF nextchar = EOF THEN
            [lx EXCEPT !.raised = TRUE, !.msg = NO_ESCAPED_CHARACTER]
        ELSE IF /\ lx.escapedstate \in ShlexQuotes
                /\ nextchar # lx.state
                /\ nextchar # lx.escapedstate
        THEN [lx EXCEPT !.token = Append(Append(lx.token, lx.state), nextchar),
                        !.state = lx.escapedstate]
        ELSE [lx EXCEPT !.token = Append(lx.token, nextchar),
                        !.state = lx.escapedstate]
    ELSE \* lx.state = "a"
        IF nextchar = EOF THEN (IF pending THEN Emit(lx, " ") ELSE lx)
        ELSE IF nextchar \in PyWhitespace THEN
            (IF pending THEN Emit(lx, " ") ELSE [lx EXCEPT !.state = " "])
        ELSE IF nextchar \in ShlexQuotes THEN [lx EXCEPT !.state = nextchar]
        ELSE IF nextchar \in ShlexEscape THEN
            [lx EXCEPT !.escapedstate = "a", !.state = nextchar]
        ELSE [lx EXCEPT !.token = Append(lx.token, nextchar)]

\* the lexer after reading s[lo..hi] one character at a time, left to right
\* (the range is halved only to keep the evaluation shallow)
RECURSIVE read_chars(_, _, _, _)
read_chars(lx, s, lo, hi) ==
    IF lo > hi THEN lx
    ELSE IF lo = hi THEN read_token_step(lx, s[lo])
    ELSE LET mid  == (lo + hi) \div 2
             left == read_chars(lx, s, lo, mid)
         IN  IF left.raised THEN left ELSE read_chars(left, s, mid + 1, hi)

\* list(lex): every token up to the end of the line, or the ValueError
shlex_split(s) ==
    LET lx == read_token_step(read_chars(LexInit, s, 1, Len(s)), EOF)
    IN  [raised |-> lx.raised, msg |-> lx.msg,
         tokens |-> IF lx.raised THEN <<>> ELSE lx.out]

\* str.split(): cut at runs of whitespace, quotes and backslashes kept as text
naive_step(acc, c) ==
    IF c \in PyWhitespace
    THEN (IF acc.token # <<>>
          THEN [token |-> <<>>, out |-> Append(acc.out, acc.token)]
          ELSE acc)
    ELSE [acc EXCEPT !.token = Append(acc.token, c)]

RECURSIVE naive_chars(_, _, _, _)
naive_chars(acc, s, lo, hi) ==
    IF lo > hi THEN acc
    ELSE IF lo = hi THEN naive_step(acc, s[lo])
    ELSE LET mid  == (lo + hi) \div 2
             left == naive_chars(acc, s, lo, mid)
         IN  naive_chars(left, s, mid + 1, hi)

split_command_whitespace_only(command_text) ==
    LET acc == naive_step(naive_chars([token |-> <<>>, out |-> <<>>],
                                      command_text, 1, Len(command_text)), " ")
    IN  [raised |-> FALSE, msg |-> <<>>, tokens |-> acc.out]

\* split_command(command_text) = shlex.split(command_text); raised/msg model
\* the ValueError shlex raises
split_command(command_text) ==
    shlex_split(command_text)

\* ------------------------------------------------------------ request lines
CMD_EMPTY == <<>>
CMD_BLANK == <<" ", " ">>
CMD_OPEN_QUOTE == <<"l", "s", " ", "'", "a">>
CMD_OPEN_ESCAPE == <<"l", "s", " ", "a", "\\">>
CMD_EMPTY_TOKEN == <<"'", "'">>
CMD_LS == <<"l", "s">>
CMD_UNAME == <<"u", "n", "a", "m", "e", " ", "-", "a">>
CMD_PATH_LS == <<"/", "t", "m", "p", "/", "x", "/", "l", "s", " ", "-", "l">>
CMD_QUOTED == <<"c", "a", "t", " ", "\"", "a", " ", "b", "\"", " ", "c">>
CMD_RM == <<"r", "m", " ", "-", "r", "f", " ", "/">>
CMD_RM_META == <<"r", "m", " ", ";">>
CMD_PATH_RM == <<"/", "b", "i", "n", "/", "r", "m", " ", "x">>
CMD_UPPER == <<"L", "S">>
CMD_TRAVERSAL == <<"c", "a", "t", " ", ".", ".", "/", "p">>
CMD_LATE_TRAVERSAL == <<"c", "a", "t", " ", "o", "k", " ", ".", ".">>
CMD_SEMI == <<"c", "a", "t", " ", "a", ";", "b">>
CMD_PIPE == <<"l", "s", " ", "'", "a", "|", "b", "'", " ", "c">>
CMD_DOLLAR == <<"l", "s", " ", "$", "H">>
CMD_BACKSLASH == <<"l", "s", " ", "'", "a", "\\", "b", "'">>
CMD_BACKTICK == <<"l", "s", " ", BACKTICK, "i", "d", BACKTICK>>
CMD_AMP == <<"l", "s", " ", "a", "&">>
CMD_LT == <<"c", "a", "t", " ", "<", "x">>
CMD_GT == <<"c", "a", "t", " ", "o", "k", " ", ">", "x">>
CMD_FIND_EXEC == <<"f", "i", "n", "d", " ", ".", " ", "-", "e", "x", "e", "c", " ", "i", "d">>
CMD_FIND_DDEXEC == <<"f", "i", "n", "d", " ", ".", " ", "-", "-", "e", "x", "e", "c">>
CMD_WORD_EXEC == <<"f", "i", "n", "d", " ", "x", "-", "e", "x", "e", "c">>
CMD_ID == <<"i", "d">>
CMD_ID_META == <<"i", "d", " ", ";">>

RECURSIVE Repeat(_, _)
Repeat(s, n) ==
    IF n = 0 THEN <<>>
    ELSE IF n = 1 THEN s
    ELSE Repeat(s, n \div 2) \o Repeat(s, n - n \div 2)

\* a command followed by n arguments "a"
WithArgs(cmd, n) == cmd \o Repeat(<<" ", "a">>, n)

\* the request lines a caller sends to the whitelisted server
Commands ==
    { CMD_EMPTY, CMD_BLANK, CMD_OPEN_QUOTE, CMD_OPEN_ESCAPE, CMD_EMPTY_TOKEN,
      CMD_LS, CMD_UNAME, CMD_PATH_LS, CMD_QUOTED,
      CMD_RM, CMD_RM_META, CMD_PATH_RM, CMD_UPPER,
      CMD_TRAVERSAL, CMD_LATE_TRAVERSAL,
      CMD_SEMI, CMD_PIPE, CMD_DOLLAR, CMD_BACKSLASH, CMD_BACKTICK, CMD_AMP,
      CMD_LT, CMD_GT,
      CMD_FIND_EXEC, CMD_FIND_DDEXEC, CMD_WORD_EXEC,
      CMD_ID, CMD_ID_META,
      WithArgs(CMD_LS, MAX_ARGS), WithArgs(CMD_LS, MAX_ARGS + 1),
      WithArgs(CMD_RM, MAX_ARGS + 1), WithArgs(CMD_ID, MAX_ARGS + 1),
      WithArgs(CMD_TRAVERSAL, MAX_ARGS) }

\* the request lines a caller sends to the unrestricted server
ShellCommands ==
    { CMD_EMPTY, CMD_BLANK, CMD_OPEN_QUOTE, CMD_LS, CMD_PIPE, CMD_RM }

\* the timeouts a caller sends (an omitted timeout takes the mode default)
Timeouts(default) == (1..MaxTimeout) \cup {default}

\* the executables the host search path can hold
HostPaths ==
    { ALLOWED_COMMANDS \cup {NAME_rm},
      ALLOWED_COMMANDS \ {NAME_id, NAME_cat},
      {} }

\* characters a child writes, and the exit codes it ends with
OutChars == {"h", "\n"}
ExitCodes == (0..MaxCode) \cup {-9}

\* ------------------------------------------------------- whitelisted server
SHELL_META_PATTERN == {";", "&", "|", "<", ">", "$", BACKTICK, "\\"}

is_allowed_base(cmd) == cmd \in ALLOWED_COMMANDS

\* \b of the Python re: the position between s[k] and s[k+1] is a word
\* boundary when exactly one side is a word character (outside the text
\* counts as a non-word character)
IsWordAt(s, k) == k \in 1..Len(s) /\ s[k] \in WordChars
WordBoundary(s, k) == IsWordAt(s, k) # IsWordAt(s, k + 1)

\* re.search(r"\b" + word + r"\b", s)
SearchBounded(s, word) ==
    \E p \in 1..(Len(s) - Len(word) + 1) :
        /\ SubSeq(s, p, p + Len(word) - 1) = word
        /\ WordBoundary(s, p - 1)
        /\ WordBoundary(s, p + Len(word) - 1)

is_safe_arg_no_traversal(arg) ==
    IF \E k \in 1..Len(arg) : arg[k] \in SHELL_META_PATTERN THEN FALSE
    ELSE IF SearchBounded(arg, DASH_EXEC) \/ SearchBounded(arg, DASHDASH_EXEC) THEN FALSE
    ELSE IF Len(arg) > MAX_ARG_LEN THEN FALSE
    ELSE TRUE

is_safe_arg(arg) ==
    IF \E k \in 1..Len(arg) : arg[k] \in SHELL_META_PATTERN THEN FALSE
    ELSE IF SearchBounded(arg, DASH_EXEC) \/ SearchBounded(arg, DASHDASH_EXEC) THEN FALSE
    ELSE IF Contains(arg, DOTDOT) THEN FALSE
    ELSE IF Len(arg) > MAX_ARG_LEN THEN FALSE
    ELSE TRUE

\* shutil.which(base_name) on a host whose search path holds the names in
\* path; <<>> models None
which(name, path) == IF name \in path THEN BIN_DIR \o name ELSE <<>>

too_many_off_by_one(args) == Len(args) >= MAX_ARGS

\* len(args) > MAX_ARGS
too_many(args) == Len(args) > MAX_ARGS

\* index of the first argument the for loop rejects, 0 when it rejects none
first_unsafe(args) ==
    IF \E k \in 1..Len(args) : ~is_safe_arg(args[k])
    THEN CHOOSE k \in 1..Len(args) :
            /\ ~is_safe_arg(args[k])
            /\ \A j \in 1..(k - 1) : is_safe_arg(args[j])
    ELSE 0

final_argv_caller_token(base, path_found, args) == <<base>> \o args

\* final_argv = [resolved] + args
final_argv_of(base, path_found, args) == <<path_found>> \o args

not_allowed_message_names_token(first, name) ==
    MSG_NOT_ALLOWED_PRE \o first \o MSG_NOT_ALLOWED_POST

\* f"ERROR: Command {base_name} is not allowed by server whitelist."
not_allowed_message(first, name) ==
    MSG_NOT_ALLOWED_PRE \o name \o MSG_NOT_ALLOWED_POST

\* f"ERROR: Command {base_name} not found on server PATH."
not_found_message(name) == MSG_NOT_ALLOWED_PRE \o name \o MSG_NOT_FOUND_POST
too_many_message == MSG_TOO_MANY_PRE \o IntStr(MAX_ARGS) \o MSG_TOO_MANY_POST
unsafe_message(a) == MSG_UNSAFE_PRE \o a

timeout_message_default(t) ==
    MSG_TIMEOUT_PRE \o IntStr(DEFAULT_TIMEOUT) \o MSG_TIMEOUT_POST

\* f"ERROR: Command timed out after {timeout} seconds."
timeout_message(t) == MSG_TIMEOUT_PRE \o IntStr(t) \o MSG_TIMEOUT_POST

\* the text run_command builds from a CompletedProcess (whitelisted server)
format_whitelist(out, err, code) ==
    JoinBlank( (IF out # <<>> THEN << STDOUT_HDR \o rstrip(out) >> ELSE <<>>)
            \o (IF err # <<>> THEN << STDERR_HDR \o rstrip(err) >> ELSE <<>>)
            \o << RETURN_CODE_PRE \o IntStr(code) >> )

\* the text run_command builds from a CompletedProcess (unrestricted server)
format_unrestricted(out, err, code) ==
    strip( (IF out # <<>> THEN STDOUT_HDR \o out \o <<"\n">> ELSE <<>>)
        \o (IF err # <<>> THEN STDERR_HDR \o err \o <<"\n">> ELSE <<>>)
        \o RETURN_CODE_PRE \o IntStr(code) )

\* the exception classes the model raises all derive from Exception
is_Exception(type) == type \in {"ValueError", "OSError", "TimeoutExpired"}

handles_only_timeout(type) == type = "TimeoutExpired"

\* except subprocess.TimeoutExpired / except Exception
handles(type) == type = "TimeoutExpired" \/ is_Exception(type)

run_leaves_child(c) == c

\* subprocess.run on TimeoutExpired: process.kill(), process.wait(), re-raise
run_on_timeout(c) == "killed"

NoExc == [type |-> "none", msg |-> <<>>]

\* -------------------------------------------------------------------- state
VARIABLES
    mode,        \* "whitelisted" or "unrestricted": which server this is
    path,        \* names of the executables on the host search path
    pc,          \* position of run_command
    command,     \* the request line
    timeout,     \* the request timeout
    argv,        \* tokens of the line
    base,        \* argv[0]
    base_name,   \* final path component of base
    resolved,    \* shutil.which(base_name), <<>> for None
    args,        \* argv[1:]
    final_argv,  \* [resolved] + args
    child,       \* "none", "running", "exited" or "killed"
    spawned,     \* the argument vector the child was started with
    nspawned,    \* children started for the request
    stdout,      \* text the child wrote to standard output
    stderr,      \* text the child wrote to standard error
    returncode,  \* exit status of the child
    exc,         \* the exception in flight
    result,      \* the string run_command returned
    stages       \* the stages the request entered, in order

vars == << mode, path, pc, command, timeout, argv, base, base_name, resolved,
           args, final_argv, child, spawned, nspawned, stdout, stderr,
           returncode, exc, result, stages >>

request == << command, timeout >>
parsed  == << argv, base, base_name, resolved, args, final_argv >>
process == << child, spawned, nspawned, stdout, stderr, returncode >>
host    == << mode, path >>

Init ==
    /\ mode \in {"whitelisted", "unrestricted"}
    /\ path \in HostPaths
    /\ mode = "unrestricted" => path = {}
    /\ pc = "idle"
    /\ command = <<>>
    /\ timeout = DEFAULT_TIMEOUT
    /\ argv = <<>> /\ base = <<>> /\ base_name = <<>> /\ resolved = <<>>
    /\ args = <<>> /\ final_argv = <<>>
    /\ child = "none" /\ spawned = <<>> /\ nspawned = 0
    /\ stdout = <<>> /\ stderr = <<>> /\ returncode = 0
    /\ exc = NoExc
    /\ result = <<>>
    /\ stages = <<>>

\* return <text>: every return of run_command ends the request the same way
Return(text) ==
    /\ result' = text
    /\ pc' = "returned"
    /\ stages' = Append(stages, "format")

\* an exception leaves the try block
Raise(type, msg) ==
    /\ exc' = [type |-> type, msg |-> msg]
    /\ pc' = "except"

\* the framework calls run_command(command, timeout); requests share no
\* state, so a behaviour follows one request of one server
Call ==
    /\ pc = "idle"
    /\ command' \in IF mode = "whitelisted" THEN Commands ELSE ShellCommands
    /\ timeout' \in Timeouts(IF mode = "whitelisted" THEN DEFAULT_TIMEOUT
                                                     ELSE UNRESTRICTED_DEFAULT_TIMEOUT)
    /\ pc' = IF mode = "whitelisted" THEN "tokenize" ELSE "spawn"
    /\ UNCHANGED << host, parsed, process, exc, result, stages >>

\* argv = split_command(command); if not argv: return ...
Tokenize ==
    /\ mode = "whitelisted" /\ pc = "tokenize"
    /\ LET r == split_command(command) IN
        IF r.raised THEN
            /\ Raise("ValueError", r.msg)
            /\ stages' = Append(stages, "tokenize")
            /\ UNCHANGED << argv, result >>
        ELSE IF r.tokens = <<>> THEN
            /\ result' = MSG_NO_COMMAND
            /\ pc' = "returned"
            /\ stages' = stages \o <<"tokenize", "format">>
            /\ UNCHANGED << argv, exc >>
        ELSE
            /\ argv' = r.tokens
            /\ pc' = "policy"
            /\ stages' = Append(stages, "tokenize")
            /\ UNCHANGED << result, exc >>
    /\ UNCHANGED << host, request, base, base_name, resolved, args, final_argv, process >>

\* base = argv[0]; base_name = base.split("/")[-1]; if not is_allowed_base(...)
PolicyCheck ==
    /\ mode = "whitelisted" /\ pc = "policy"
    /\ base' = argv[1]
    /\ base_name' = LastComponent(argv[1])
    /\ IF ~is_allowed_base(base_name')
       THEN /\ result' = not_allowed_message(base', base_name')
            /\ pc' = "returned"
            /\ stages' = stages \o <<"policy", "format">>
       ELSE /\ pc' = "resolve"
            /\ stages' = Append(stages, "policy")
            /\ UNCHANGED result
    /\ UNCHANGED << host, request, argv, resolved, args, final_argv, process, exc >>

\* resolved = shutil.which(base_name); if resolved is None: return ...
Resolve ==
    /\ mode = "whitelisted" /\ pc = "resolve"
    /\ resolved' = which(base_name, path)
    /\ IF resolved' = <<>>
       THEN /\ result' = not_found_message(base_name)
            /\ pc' = "returned"
            /\ stages' = stages \o <<"resolve", "format">>
       ELSE /\ pc' = "count"
            /\ stages' = Append(stages, "resolve")
            /\ UNCHANGED result
    /\ UNCHANGED << host, request, argv, base, base_name, args, final_argv, process, exc >>

\* args = argv[1:]; if len(args) > MAX_ARGS: return ...
CheckArgCount ==
    /\ mode = "whitelisted" /\ pc = "count"
    /\ args' = Tail(argv)
    /\ IF too_many(args')
       THEN /\ result' = too_many_message
            /\ pc' = "returned"
            /\ stages' = stages \o <<"argfilter", "format">>
       ELSE /\ pc' = "filter"
            /\ stages' = Append(stages, "argfilter")
            /\ UNCHANGED result
    /\ UNCHANGED << host, request, argv, base, base_name, resolved, final_argv, process, exc >>

\* for a in args: if not is_safe_arg(a): return ...; final_argv = [resolved] + args
FilterArgs ==
    /\ mode = "whitelisted" /\ pc = "filter"
    /\ LET k == first_unsafe(args) IN
        IF k # 0
        THEN /\ Return(unsafe_message(args[k]))
             /\ UNCHANGED final_argv
        ELSE /\ final_argv' = final_argv_of(base, resolved, args)
             /\ pc' = "spawn"
             /\ UNCHANGED << result, stages >>
    /\ UNCHANGED << host, request, argv, base, base_name, resolved, args, process, exc >>

\* subprocess.run(final_argv, ...): the child starts, or the host refuses
SpawnDirect ==
    /\ mode = "whitelisted" /\ pc = "spawn"
    /\ stages' = Append(stages, "execute")
    /\ \E started \in BOOLEAN :
        IF started
        THEN /\ child' = "running"
             /\ spawned' = final_argv
             /\ nspawned' = nspawned + 1
             /\ pc' = "wait"
             /\ UNCHANGED exc
        ELSE /\ Raise("OSError", PERMISSION_DENIED)
             /\ UNCHANGED << child, spawned, nspawned >>
    /\ UNCHANGED << host, request, parsed, stdout, stderr, returncode, result >>

\* subprocess.run(command, shell=True, ...): the shell starts, or the host refuses
SpawnShell ==
    /\ mode = "unrestricted" /\ pc = "spawn"
    /\ stages' = Append(stages, "execute")
    /\ \E started \in BOOLEAN :
        IF started
        THEN /\ child' = "running"
             /\ spawned' = << BIN_SH, DASH_C, command >>
             /\ nspawned' = nspawned + 1
             /\ pc' = "wait"
             /\ UNCHANGED exc
        ELSE /\ Raise("OSError", PERMISSION_DENIED)
             /\ UNCHANGED << child, spawned, nspawned >>
    /\ UNCHANGED << host, request, parsed, stdout, stderr, returncode, result >>

\* the running child writes a character to one of its pipes
ChildWrite ==
    /\ pc = "wait" /\ child = "running"
    /\ \E c \in OutChars :
        \/ /\ Len(stdout) < MaxOut
           /\ stdout' = Append(stdout, c)
           /\ UNCHANGED stderr
        \/ /\ Len(stderr) < MaxOut
           /\ stderr' = Append(stderr, c)
           /\ UNCHANGED stdout
    /\ UNCHANGED << host, request, parsed, pc, child, spawned, nspawned, returncode,
                    exc, result, stages >>

\* the child exits within the timeout: subprocess.run returns a CompletedProcess
ChildExit ==
    /\ pc = "wait" /\ child = "running"
    /\ returncode' \in ExitCodes
    /\ child' = "exited"
    /\ pc' = "format"
    /\ UNCHANGED << host, request, parsed, spawned, nspawned, stdout, stderr,
                    exc, result, stages >>

\* the timeout elapses first: subprocess.run raises TimeoutExpired
TimeoutExpired ==
    /\ pc = "wait" /\ child = "running"
    /\ child' = run_on_timeout(child)
    /\ Raise("TimeoutExpired", <<>>)
    /\ UNCHANGED << host, request, parsed, spawned, nspawned, stdout, stderr,
                    returncode, result, stages >>

\* out_lines ...; return "\n\n".join(out_lines)
FormatWhitelist ==
    /\ mode = "whitelisted" /\ pc = "format"
    /\ Return(format_whitelist(stdout, stderr, returncode))
    /\ UNCHANGED << host, request, parsed, process, exc >>

\* output ...; return output.strip()
FormatUnrestricted ==
    /\ mode = "unrestricted" /\ pc = "format"
    /\ Return(format_unrestricted(stdout, stderr, returncode))
    /\ UNCHANGED << host, request, parsed, process, exc >>

\* the except clauses of the whitelisted run_command
ExceptWhitelist ==
    /\ mode = "whitelisted" /\ pc = "except"
    /\ IF ~handles(exc.type)
       THEN /\ pc' = "propagated"
            /\ UNCHANGED << result, stages >>
       ELSE IF exc.type = "TimeoutExpired"
       THEN Return(timeout_message(timeout))
       ELSE Return(MSG_EXC_WHITELIST_PRE \o exc.msg)
    /\ UNCHANGED << host, request, parsed, process, exc >>

\* the except clauses of the unrestricted run_command
ExceptUnrestricted ==
    /\ mode = "unrestricted" /\ pc = "except"
    /\ IF ~handles(exc.type)
       THEN /\ pc' = "propagated"
            /\ UNCHANGED << result, stages >>
       ELSE IF exc.type = "TimeoutExpired"
       THEN Return(timeout_message(timeout))
       ELSE Return(MSG_EXC_UNRESTRICTED_PRE \o exc.msg)
    /\ UNCHANGED << host, request, parsed, process, exc >>

Next ==
    \/ Call
    \/ Tokenize \/ PolicyCheck \/ Resolve \/ CheckArgCount \/ FilterArgs
    \/ SpawnDirect \/ SpawnShell
    \/ ChildWrite \/ ChildExit \/ TimeoutExpired
    \/ FormatWhitelist \/ FormatUnrestricted
    \/ ExceptWhitelist \/ ExceptUnrestricted

Spec == Init /\ [][Next]_vars

\* ------------------------------------------------------------- properties
Whitelisted == mode = "whitelisted"

\* what shlex makes of the request line
Tokens == shlex_split(command)
Tokenized == ~Tokens.raised /\ Tokens.tokens # <<>>
BaseName == LastComponent(Tokens.tokens[1])
Arguments == Tail(Tokens.tokens)
PathFound == IF BaseName \in path THEN BIN_DIR \o BaseName ELSE <<>>

HasMetaOrTraversal(a) ==
    \/ \E k \in 1..Len(a) : a[k] \in {";", "&", "|", "<", ">", "$", BACKTICK, "\\"}
    \/ Contains(a, DOTDOT)

IsError(r) == StartsWith(r, <<"E", "R", "R", "O", "R", ":", " ">>)
IsArgumentDenied(r) ==
    \/ r = MSG_TOO_MANY_PRE \o <<"3", "0">> \o MSG_TOO_MANY_POST
    \/ StartsWith(r, MSG_UNSAFE_PRE)
IsTimedOut(r) == StartsWith(r, MSG_TIMEOUT_PRE)

\* C1: in whitelisted mode a child has been spawned only if the line
\* tokenized to a non-empty sequence, the base name of the first token is
\* in the whitelist, the resolver found a path for it, there are at most 30
\* arguments and each passed is_safe_arg; and what was spawned is the
\* resolver path followed by exactly the argument tokens in order.
C1_SpawnOnlyChecked ==
    (Whitelisted /\ nspawned > 0) =>
        LET t     == shlex_split(command)
            name  == LastComponent(t.tokens[1])
            rest  == Tail(t.tokens)
            found == IF name \in path THEN BIN_DIR \o name ELSE <<>>
        IN  /\ ~t.raised /\ t.tokens # <<>>
            /\ name \in ALLOWED_COMMANDS
            /\ found # <<>>
            /\ Len(rest) <= MAX_ARGS
            /\ \A k \in 1..Len(rest) : is_safe_arg(rest[k])
            /\ spawned = <<found>> \o rest
            /\ nspawned = 1

C1_Witness ==
    /\ Whitelisted /\ nspawned > 0
    /\ Len(spawned) > 1
    /\ spawned[1] # Tokens.tokens[1]
    /\ LastComponent(Tokens.tokens[1]) # Tokens.tokens[1]

C3_Original ==
    Whitelisted =>
        LET t == shlex_split(command) IN
        (/\ ~t.raised /\ t.tokens # <<>>
         /\ LastComponent(t.tokens[1]) \in ALLOWED_COMMANDS
         /\ \E k \in 2..Len(t.tokens) : HasMetaOrTraversal(t.tokens[k]))
        => /\ nspawned = 0
           /\ pc = "returned" => IsArgumentDenied(result)

\* C3 amended: under the same condition no child is spawned; the result is
\* an ArgumentDenied error when the resolver finds the base command, and the
\* not-found error when it does not.
C3_UnsafeArgumentDenied ==
    Whitelisted =>
        LET t     == shlex_split(command)
            name  == LastComponent(t.tokens[1])
        IN
        (/\ ~t.raised /\ t.tokens # <<>>
         /\ name \in ALLOWED_COMMANDS
         /\ \E k \in 2..Len(t.tokens) : HasMetaOrTraversal(t.tokens[k]))
        => /\ nspawned = 0
           /\ pc \notin {"spawn", "wait", "format"}
           /\ pc = "returned" =>
                IF name \in path
                THEN IsArgumentDenied(result)
                ELSE result = MSG_NOT_ALLOWED_PRE \o name \o MSG_NOT_FOUND_POST

C3_Witness ==
    /\ Whitelisted /\ pc = "returned"
    /\ resolved # <<>>
    /\ Len(args) >= 2
    /\ ~HasMetaOrTraversal(args[1])
    /\ Contains(args[2], DOTDOT)
    /\ result = MSG_UNSAFE_PRE \o args[2]
    /\ nspawned = 0

\* C4: in whitelisted mode a request with an argument that is exactly
\* "-exec" or "--exec" spawns no process, and once the base command is
\* allowed and resolved it is denied as ArgumentDenied.
C4_ExecFlagDenied ==
    Whitelisted =>
        LET t    == shlex_split(command)
            name == LastComponent(t.tokens[1])
        IN
        (/\ ~t.raised /\ t.tokens # <<>>
         /\ \E k \in 2..Len(t.tokens) : t.tokens[k] \in {DASH_EXEC, DASHDASH_EXEC})
        => /\ nspawned = 0
           /\ (pc = "returned" /\ name \in ALLOWED_COMMANDS /\ name \in path)
                => IsArgumentDenied(result)

\* C5: in whitelisted mode, when the line tokenizes to a non-empty sequence
\* whose base name is not in the whitelist, the result is exactly the
\* PolicyDenied message naming that base name and no process is spawned,
\* whatever the arguments and whether or not such a binary exists.
C5_PolicyDenied ==
    Whitelisted =>
        LET t    == shlex_split(command)
            name == LastComponent(t.tokens[1])
        IN
        (~t.raised /\ t.tokens # <<>> /\ name \notin ALLOWED_COMMANDS)
        => /\ nspawned = 0
           /\ pc \in {"tokenize", "policy", "returned"}
           /\ pc = "returned" =>
                result = MSG_NOT_ALLOWED_PRE \o name \o MSG_NOT_ALLOWED_POST

C5_Witness ==
    /\ Whitelisted /\ pc = "returned"
    /\ Tokenized /\ BaseName \notin ALLOWED_COMMANDS
    /\ BaseName \in path
    /\ BaseName # Tokens.tokens[1]
    /\ result = MSG_NOT_ALLOWED_PRE \o NAME_rm \o MSG_NOT_ALLOWED_POST

\* C6: in both modes, once the timed-out result is on its way to the caller
\* (TimeoutExpired raised, or the text returned) the child of the request is
\* no longer running.
C6_TimedOutChildTerminated ==
    /\ (pc = "returned" /\ IsTimedOut(result)) => child = "killed"
    /\ (pc = "except" /\ exc.type = "TimeoutExpired") => child = "killed"

C6_Witness ==
    /\ pc = "returned" /\ IsTimedOut(result)
    /\ nspawned = 1 /\ child = "killed"

C8_SameCompletedText ==
    (pc = "returned" /\ child = "exited") =>
        /\ format_unrestricted(stdout, stderr, returncode)
             = format_whitelist(stdout, stderr, returncode)
        /\ EndsWith(result, RETURN_CODE_PRE \o IntStr(returncode))
        /\ Contains(result, STDOUT_HDR) <=> stdout # <<>>
        /\ Contains(result, STDERR_HDR) <=> stderr # <<>>
        /\ (stdout # <<>> \/ stderr # <<>>)
             => Contains(result, BLANK_LINE \o RETURN_CODE_PRE)
        /\ (stdout # <<>> /\ stderr # <<>>)
             => Contains(result, BLANK_LINE \o STDERR_HDR)

\* C9 as stated: in both modes a line that is empty, whitespace-only or has
\* an unterminated quote gives an "ERROR: ..." result and no child is ever
\* spawned for it.
C9_Original ==
    LET t == shlex_split(command) IN
    (t.raised \/ t.tokens = <<>>) =>
        /\ nspawned = 0
        /\ pc = "returned" => IsError(result)

\* C9 amended: the same, in whitelisted mode only (the unrestricted server
\* hands every line to the shell).
C9_MalformedDenied ==
    Whitelisted =>
        LET t == shlex_split(command) IN
        (t.raised \/ t.tokens = <<>>) =>
            /\ nspawned = 0
            /\ pc \in {"idle", "tokenize", "except", "returned"}
            /\ pc = "returned" => IsError(result)

C9_Witness ==
    /\ Whitelisted /\ pc = "returned"
    /\ Tokens.raised
    /\ result = MSG_EXC_WHITELIST_PRE \o NO_CLOSING_QUOTATION
    /\ nspawned = 0

\* the stages a request has entered follow the given order without gaps,
\* and formatting, once entered, is the last
FollowsOrder(order) ==
    LET n == Len(stages)
        body == IF n > 0 /\ stages[n] = "format" THEN SubSeq(stages, 1, n - 1)
                ELSE stages
    IN  /\ Len(body) <= Len(order)
        /\ body = SubSeq(order, 1, Len(body))
        /\ (pc = "returned") <=> (n > 0 /\ stages[n] = "format")

TokenizeDenial ==
    IF Tokens.raised THEN MSG_EXC_WHITELIST_PRE \o Tokens.msg
    ELSE IF Tokens.tokens = <<>> THEN MSG_NO_COMMAND
    ELSE <<>>
PolicyDenial ==
    IF BaseName \notin ALLOWED_COMMANDS
    THEN MSG_NOT_ALLOWED_PRE \o BaseName \o MSG_NOT_ALLOWED_POST ELSE <<>>
ResolveDenial ==
    IF PathFound = <<>>
    THEN MSG_NOT_ALLOWED_PRE \o BaseName \o MSG_NOT_FOUND_POST ELSE <<>>
FilterDenial ==
    IF Len(Arguments) > 30
    THEN MSG_TOO_MANY_PRE \o <<"3", "0">> \o MSG_TOO_MANY_POST
    ELSE IF first_unsafe(Arguments) # 0
    THEN MSG_UNSAFE_PRE \o Arguments[first_unsafe(Arguments)]
    ELSE <<>>

\* the denial of the earliest failing stage, <<>> when no stage fails
EarliestDenial(filterFirst) ==
    IF TokenizeDenial # <<>> THEN TokenizeDenial
    ELSE IF PolicyDenial # <<>> THEN PolicyDenial
    ELSE IF filterFirst THEN
        (IF FilterDenial # <<>> THEN FilterDenial ELSE ResolveDenial)
    ELSE (IF ResolveDenial # <<>> THEN ResolveDenial ELSE FilterDenial)

\* a request that ended before the executor was entered
EndedEarly == pc = "returned" /\ "execute" \notin { stages[k] : k \in 1..Len(stages) }

\* C10 as stated: a whitelisted request enters the stages in the order
\* tokenize, policy check, argument filter, binary resolution, execution,
\* formatting, and a denial is that of the earliest failing stage in it.
C10_Original ==
    Whitelisted =>
        /\ FollowsOrder(<<"tokenize", "policy", "argfilter", "resolve", "execute">>)
        /\ EndedEarly => result = EarliestDenial(TRUE)

\* C10 amended: the order is tokenize, policy check, binary resolution,
\* argument filter (count, then each argument), execution, formatting; a
\* stage is entered only after every earlier one succeeded, a failure goes
\* straight to the formatted result, and the denial reported is that of
\* the earliest failing stage in this order.
C10_StageOrder ==
    Whitelisted =>
        /\ FollowsOrder(<<"tokenize", "policy", "resolve", "argfilter", "execute">>)
        /\ EndedEarly => (result # <<>> /\ result = EarliestDenial(FALSE))
        /\ (pc = "returned" /\ ~EndedEarly) => EarliestDenial(FALSE) = <<>>

C10_Witness ==
    /\ Whitelisted /\ pc = "returned"
    /\ stages = <<"tokenize", "policy", "resolve", "argfilter", "format">>
    /\ IsArgumentDenied(result)

====
